---- MODULE Spec2Model ----
(***************************************************************************)
(* Model of the image-processing benchmark scripts.                        *)
(*                                                                         *)
(*   distributed_process.py : main (the master) runs a sequential baseline *)
(*       over every image, splits the list with np.array_split, starts one *)
(*       multiprocessing.Process per node, joins them all and prints a     *)
(*       summary with an efficiency ratio.                                 *)
(*   parallel_process.py : main sweeps WORKER_COUNTS; for each count it    *)
(*       maps process_image over every image on a ThreadPoolExecutor, and  *)
(*       prints a speedup table at the end.                                *)
(*                                                                         *)
(* An image is identified by its position in the directory listing; the    *)
(* pair (input_path, output_path) of item k is written k.  What cv2 does   *)
(* with a file is abstracted to its three outcomes in process_single_image:*)
(* the file is written ("ok"), cv2.imread returns None ("none"), or a cv2  *)
(* call raises ("raise").  time.time() reads a clock `now` that never runs *)
(* backwards and may stand still between two reads.                        *)
(***************************************************************************)
EXTENDS Integers, Sequences, FiniteSets, TLC

\* Bounds of the model.
MaxItems == 3
MaxNodes == 2
MaxTime == 1
MaxPoolTime == 4
MaxSplitLen == 10
MaxSplitNodes == 3

KINDS == {"ok", "none", "raise"}

VARIABLES
    dataset,                \* the input tree: dataset[k] is the kind of file k
    NUM_NODES,              \* distributed_process.NUM_NODES
    now,                    \* the clock time.time() reads
    pc,                     \* position of main
    error,                  \* the exception that ended main, or "none"
    all_image_paths,        \* main: list of work items
    seq_i,                  \* main: items done by the baseline loop
    seq_start_time,
    sequential_time,
    image_subsets,          \* main: result of np.array_split
    results_dict,           \* the manager.dict() shared with the nodes
    key_order,              \* the keys of results_dict in insertion order
    master_start_time,
    total_distributed_time,
    i,                      \* main: loop variable of the start loop
    joined,                 \* main: processes joined so far
    node_args,              \* per process: args=(node_id, subset, results_dict)
    node_pc,                \* per process: position of node_task
    node_idx,               \* per process: items done by the chunk loop
    node_start_time,
    summary,                \* the "Node .. processed .." lines printed
    efficiency,             \* <<>> until computed, then <<numerator, denominator>>
    transformed,            \* per caller: the items passed to the transform, in order
    written,                \* output files that exist
    cfg,                    \* parallel main: entries of WORKER_COUNTS done
    pool,                   \* parallel main: state of each submitted call
    start_time,             \* parallel main
    results,                \* parallel main: list of {'workers', 'time'}
    table                   \* parallel main: rows of the speedup table printed

vars == <<dataset, NUM_NODES, now, pc, error, all_image_paths, seq_i,
          seq_start_time, sequential_time, image_subsets, results_dict, key_order,
          master_start_time, total_distributed_time, i, joined, node_args,
          node_pc, node_idx, node_start_time, summary, efficiency,
          transformed, written, cfg, pool, start_time, results, table>>

poolVars == <<cfg, pool, start_time, results, table>>

mainVars == <<pc, error, all_image_paths, seq_i, seq_start_time,
              sequential_time, image_subsets, master_start_time,
              total_distributed_time, i, joined, summary, efficiency>>

nodeVars == <<node_pc, node_idx, node_start_time>>

\* The master as a caller in `transformed`; a node is named by its position
\* in main's list `processes`.
MASTER == 0

----------------------------------------------------------------------------
\* Pure helpers.

RECURSIVE SumSeq(_)
SumSeq(s) == IF s = <<>> THEN 0 ELSE Head(s) + SumSeq(Tail(s))

RECURSIVE Concat(_)
Concat(ss) == IF ss = <<>> THEN <<>> ELSE Head(ss) \o Concat(Tail(ss))

\* process_single_image: the try/except swallows every Exception and an
\* unreadable file is skipped; the output is written only for a good file.
\* `raised` says whether an exception leaves the function.
process_single_image(kind) ==
    [wrote |-> kind = "ok", raised |-> FALSE]

\* A faulty variant of section_size: the remainder test is off by one, so one of the
\* longer sections is lost.
section_size_strict(Ntotal, Nsections, k) ==
    IF k < Ntotal % Nsections
    THEN (Ntotal \div Nsections) + 1
    ELSE Ntotal \div Nsections

\* A faulty variant of section_size: the longer sections are put last.
section_size_tail(Ntotal, Nsections, k) ==
    IF k > Nsections - (Ntotal % Nsections)
    THEN (Ntotal \div Nsections) + 1
    ELSE Ntotal \div Nsections

\* np.array_split(ary, Nsections) for Nsections > 0:
\*   Neach_section, extras = divmod(Ntotal, Nsections)
\*   section_sizes = [0] + extras*[Neach_section+1] + (Nsections-extras)*[Neach_section]
\*   div_points = cumsum(section_sizes); sub-array k is ary[div_points[k]:div_points[k+1]]
section_size(Ntotal, Nsections, k) ==
    IF k <= Ntotal % Nsections
    THEN (Ntotal \div Nsections) + 1
    ELSE Ntotal \div Nsections

RECURSIVE div_point(_, _, _)
div_point(Ntotal, Nsections, k) ==
    IF k = 0 THEN 0
    ELSE div_point(Ntotal, Nsections, k - 1) + section_size(Ntotal, Nsections, k)

\* A faulty variant of array_split: every section but the first starts one
\* element early, so neighbouring sections share an element.
array_split_overlap(ary, Nsections) ==
    [k \in 1..Nsections |->
        SubSeq(ary, IF div_point(Len(ary), Nsections, k - 1) = 0 THEN 1
                    ELSE div_point(Len(ary), Nsections, k - 1),
                    div_point(Len(ary), Nsections, k))]

\* A faulty variant of array_split: no section is cut out, every node gets
\* the whole list.
array_split_whole(ary, Nsections) ==
    [k \in 1..Nsections |-> ary]

array_split(ary, Nsections) ==
    [k \in 1..Nsections |->
        SubSeq(ary, div_point(Len(ary), Nsections, k - 1) + 1,
                    div_point(Len(ary), Nsections, k))]

\* A faulty variant of node_id_of: the loop variable itself is the node id.
node_id_zero_based(idx) == idx

\* A faulty variant of node_id_of: every node is given the same id.
node_id_shared(idx) == 1

\* node_id = i + 1, for the 0-based loop variable i of the start loop.
node_id_of(idx) == idx + 1

\* A faulty variant of node_result: only the files actually written are counted.
node_result_written(image_subset, total_time) ==
    [count |-> Cardinality({k \in 1..Len(image_subset) : image_subset[k] \in written}),
     time |-> total_time]

\* The value a node stores in the shared dictionary.
node_result(image_subset, total_time) ==
    [count |-> Len(image_subset), time |-> total_time]

\* A faulty variant of float_div: a zero divisor is coerced to 1 instead of raising.
float_div_coerced(a, b) ==
    [raised |-> FALSE, value |-> <<a, IF b = 0 THEN 1 ELSE b>>]

\* Python's a / b on floats: ZeroDivisionError for b = 0.0, else the quotient,
\* kept as the pair <<a, b>>.
float_div(a, b) ==
    IF b = 0 THEN [raised |-> TRUE, value |-> <<>>]
    ELSE [raised |-> FALSE, value |-> <<a, b>>]

\* dict[key] = value
DictSet(d, key, value) ==
    [k \in DOMAIN d \cup {key} |-> IF k = key THEN value ELSE d[k]]

\* A dict iterates in insertion order: a new key goes to the end, an
\* existing key keeps its place.
DictOrder(d, order, key) ==
    IF key \in DOMAIN d THEN order ELSE Append(order, key)

\* A faulty variant of sorted_items: the items are printed as the dict
\* iterates, without sorted().
items_in_dict_order(d, keys) ==
    [k \in 1..Len(key_order) |->
        [node_id |-> key_order[k], count |-> d[key_order[k]].count,
         time |-> d[key_order[k]].time]]

\* sorted(results_dict.items()) as the printed lines.
RECURSIVE sorted_items(_, _)
sorted_items(d, keys) ==
    IF keys = {} THEN <<>>
    ELSE LET m == CHOOSE x \in keys : \A y \in keys : x <= y
         IN <<[node_id |-> m, count |-> d[m].count, time |-> d[m].time]>>
            \o sorted_items(d, keys \ {m})

\* Processes whose join() returns.
TERMINATED == {"exited", "crashed"}

Procs == 1..NUM_NODES

----------------------------------------------------------------------------
Datasets == UNION {[1..n -> KINDS] : n \in 0..MaxItems}

Init ==
    /\ dataset \in Datasets
    /\ NUM_NODES \in 0..MaxNodes
    /\ now = 0
    /\ pc = "discover"
    /\ error = "none"
    /\ all_image_paths = <<>>
    /\ seq_i = 0
    /\ seq_start_time = 0
    /\ sequential_time = 0
    /\ image_subsets = <<>>
    /\ results_dict = <<>>
    /\ key_order = <<>>
    /\ master_start_time = 0
    /\ total_distributed_time = 0
    /\ i = 0
    /\ joined = 0
    /\ node_args = <<>>
    /\ node_pc = [p \in Procs |-> "unstarted"]
    /\ node_idx = [p \in Procs |-> 0]
    /\ node_start_time = [p \in Procs |-> 0]
    /\ summary = <<>>
    /\ efficiency = <<>>
    /\ transformed = [c \in {MASTER} \cup Procs |-> <<>>]
    /\ written = {}
    /\ cfg = 0
    /\ pool = <<>>
    /\ start_time = 0
    /\ results = <<>>
    /\ table = <<>>

\* time passes
Tick ==
    /\ pc \notin {"done", "failed"}
    /\ now < MaxTime
    /\ now' = now + 1
    /\ UNCHANGED <<dataset, NUM_NODES, mainVars, nodeVars, node_args,
                   results_dict, key_order, transformed, written,
                   poolVars>>

\* main, lines 54-73: build the work list, take the baseline start time.
Discover ==
    /\ pc = "discover"
    /\ all_image_paths' = [k \in 1..Len(dataset) |-> k]
    /\ seq_start_time' = now
    /\ pc' = "baseline"
    /\ UNCHANGED <<dataset, NUM_NODES, now, error, seq_i, sequential_time,
                   image_subsets, results_dict, key_order, master_start_time,
                   total_distributed_time, i, joined, node_args, nodeVars,
                   summary, efficiency, transformed, written,
                   poolVars>>

\* main, lines 74-75: one iteration of the baseline loop.
BaselineStep ==
    /\ pc = "baseline"
    /\ seq_i < Len(all_image_paths)
    /\ LET item == all_image_paths[seq_i + 1]
           r == process_single_image(dataset[item])
       IN /\ transformed' = [transformed EXCEPT ![MASTER] = Append(@, item)]
          /\ written' = IF r.wrote THEN written \cup {item} ELSE written
          /\ IF r.raised
             THEN /\ pc' = "failed"
                  /\ error' = "Exception"
                  /\ UNCHANGED seq_i
             ELSE /\ seq_i' = seq_i + 1
                  /\ UNCHANGED <<pc, error>>
    /\ UNCHANGED <<dataset, NUM_NODES, now, all_image_paths, seq_start_time,
                   sequential_time, image_subsets, results_dict, key_order,
                   master_start_time, total_distributed_time, i, joined,
                   node_args, nodeVars, summary, efficiency,
                   poolVars>>

\* main, lines 76-78: the baseline is over.
SeqEnd ==
    /\ pc = "baseline"
    /\ seq_i = Len(all_image_paths)
    /\ sequential_time' = now - seq_start_time
    /\ pc' = "split"
    /\ UNCHANGED <<dataset, NUM_NODES, now, error, all_image_paths, seq_i,
                   seq_start_time, image_subsets, results_dict, key_order,
                   master_start_time, total_distributed_time, i, joined,
                   node_args, nodeVars, summary, efficiency, transformed,
                   written,
                   poolVars>>

\* main, lines 84-93: np.array_split raises ValueError("number sections must
\* be larger than 0.") for NUM_NODES <= 0; otherwise the manager dict is
\* created empty and the master timer starts.
Split ==
    /\ pc = "split"
    /\ IF NUM_NODES <= 0
       THEN /\ pc' = "failed"
            /\ error' = "ValueError"
            /\ UNCHANGED <<image_subsets, results_dict, key_order, master_start_time>>
       ELSE /\ image_subsets' = array_split(all_image_paths, NUM_NODES)
            /\ results_dict' = <<>>
            /\ key_order' = <<>>
            /\ master_start_time' = now
            /\ pc' = "start"
            /\ UNCHANGED error
    /\ UNCHANGED <<dataset, NUM_NODES, now, all_image_paths, seq_i,
                   seq_start_time, sequential_time, total_distributed_time,
                   i, joined, node_args, nodeVars, summary, efficiency,
                   transformed, written,
                   poolVars>>

\* main, lines 96-101: one iteration of the start loop.
StartNode ==
    /\ pc = "start"
    /\ i < NUM_NODES
    /\ node_args' = Append(node_args, [node_id |-> node_id_of(i),
                                       image_subset |-> image_subsets[i + 1]])
    /\ node_pc' = [node_pc EXCEPT ![i + 1] = "started"]
    /\ i' = i + 1
    /\ pc' = IF i + 1 = NUM_NODES THEN "join" ELSE "start"
    /\ UNCHANGED <<dataset, NUM_NODES, now, error, all_image_paths, seq_i,
                   seq_start_time, sequential_time, image_subsets,
                   results_dict, key_order, master_start_time, total_distributed_time,
                   joined, node_idx, node_start_time, summary, efficiency,
                   transformed, written,
                   poolVars>>

\* A faulty variant of join_returns: join() does not wait.
join_no_wait(p) == TRUE

\* process.join() returns once that process has terminated.
join_returns(p) == node_pc[p] \in TERMINATED

\* main, lines 104-105: one iteration of the join loop.
Join ==
    /\ pc = "join"
    /\ joined < NUM_NODES
    /\ join_returns(joined + 1)
    /\ joined' = joined + 1
    /\ UNCHANGED <<dataset, NUM_NODES, now, pc, error, all_image_paths, seq_i,
                   seq_start_time, sequential_time, image_subsets,
                   results_dict, key_order, master_start_time, total_distributed_time,
                   i, node_args, nodeVars, summary, efficiency, transformed,
                   written,
                   poolVars>>

\* main, lines 108-109: the master timer ends.
MasterEnd ==
    /\ pc = "join"
    /\ joined = NUM_NODES
    /\ total_distributed_time' = now - master_start_time
    /\ pc' = "summary"
    /\ UNCHANGED <<dataset, NUM_NODES, now, error, all_image_paths, seq_i,
                   seq_start_time, sequential_time, image_subsets,
                   results_dict, key_order, master_start_time, i, joined, node_args,
                   nodeVars, summary, efficiency, transformed, written,
                   poolVars>>

\* main, lines 112-116: the per-node lines, in sorted key order.
Summary ==
    /\ pc = "summary"
    /\ summary' = sorted_items(results_dict, DOMAIN results_dict)
    /\ pc' = "efficiency"
    /\ UNCHANGED <<dataset, NUM_NODES, now, error, all_image_paths, seq_i,
                   seq_start_time, sequential_time, image_subsets,
                   results_dict, key_order, master_start_time, total_distributed_time,
                   i, joined, node_args, nodeVars, efficiency, transformed,
                   written,
                   poolVars>>

\* main, lines 118-119: a float division; Python raises ZeroDivisionError
\* when the divisor is 0.0.
Efficiency ==
    /\ pc = "efficiency"
    /\ LET q == float_div(sequential_time, total_distributed_time)
       IN IF q.raised
          THEN /\ pc' = "failed"
               /\ error' = "ZeroDivisionError"
               /\ UNCHANGED efficiency
          ELSE /\ efficiency' = q.value
               /\ pc' = "done"
               /\ UNCHANGED error
    /\ UNCHANGED <<dataset, NUM_NODES, now, all_image_paths, seq_i,
                   seq_start_time, sequential_time, image_subsets,
                   results_dict, key_order, master_start_time, total_distributed_time,
                   i, joined, node_args, nodeVars, summary, transformed,
                   written,
                   poolVars>>

\* node_task, lines 37-38.
NodeStart(p) ==
    /\ node_pc[p] = "started"
    /\ node_start_time' = [node_start_time EXCEPT ![p] = now]
    /\ node_pc' = [node_pc EXCEPT ![p] = "loop"]
    /\ UNCHANGED <<dataset, NUM_NODES, now, mainVars, node_args, node_idx,
                   results_dict, key_order, transformed, written,
                   poolVars>>

\* A faulty variant of chunk_loop_done: the result is stored without waiting
\* for the loop to end.
chunk_loop_done_early(p) == TRUE

\* The for loop of node_task (line 40) has run out of items.
chunk_loop_done(p) == node_idx[p] = Len(node_args[p].image_subset)

\* node_task, lines 40-41: one iteration of the chunk loop.
NodeStep(p) ==
    /\ node_pc[p] = "loop"
    /\ node_idx[p] < Len(node_args[p].image_subset)
    /\ LET item == node_args[p].image_subset[node_idx[p] + 1]
           r == process_single_image(dataset[item])
       IN /\ transformed' = [transformed EXCEPT ![p] = Append(@, item)]
          /\ written' = IF r.wrote THEN written \cup {item} ELSE written
          /\ IF r.raised
             THEN /\ node_pc' = [node_pc EXCEPT ![p] = "crashed"]
                  /\ UNCHANGED node_idx
             ELSE /\ node_idx' = [node_idx EXCEPT ![p] = @ + 1]
                  /\ UNCHANGED node_pc
    /\ UNCHANGED <<dataset, NUM_NODES, now, mainVars, node_args,
                   node_start_time, results_dict, key_order,
                   poolVars>>

\* node_task, lines 43-48: take the end time, publish the result, exit.
NodeFinish(p) ==
    /\ node_pc[p] = "loop"
    /\ chunk_loop_done(p)
    /\ results_dict' = DictSet(results_dict, node_args[p].node_id,
                               node_result(node_args[p].image_subset,
                                           now - node_start_time[p]))
    /\ key_order' = DictOrder(results_dict, key_order, node_args[p].node_id)
    /\ node_pc' = [node_pc EXCEPT ![p] = "exited"]
    /\ UNCHANGED <<dataset, NUM_NODES, now, mainVars, node_args, node_idx,
                   node_start_time, transformed, written,
                   poolVars>>

Next ==
    \/ Tick
    \/ Discover
    \/ BaselineStep
    \/ SeqEnd
    \/ Split
    \/ StartNode
    \/ Join
    \/ MasterEnd
    \/ Summary
    \/ Efficiency
    \/ \E p \in Procs : NodeStart(p)
    \/ \E p \in Procs : NodeStep(p)
    \/ \E p \in Procs : NodeFinish(p)

\* distributed_process.main on a machine where no process is killed or blocks.
Spec == Init /\ [][Next]_vars

----------------------------------------------------------------------------
\* The environment of distributed_process.main with faults: the operating
\* system may kill a node process at any point of node_task, and a cv2 call
\* may block for ever (a read from a dead network mount, a FIFO).

\* A node process dies before it publishes; its join() returns.
Crash(p) ==
    /\ node_pc[p] \in {"started", "loop"}
    /\ node_pc' = [node_pc EXCEPT ![p] = "crashed"]
    /\ UNCHANGED <<dataset, NUM_NODES, now, mainVars, node_args, node_idx,
                   node_start_time, results_dict, key_order, transformed, written,
                   poolVars>>

\* A node blocks inside process_single_image and never returns.
Hang(p) ==
    /\ node_pc[p] = "loop"
    /\ node_idx[p] < Len(node_args[p].image_subset)
    /\ node_pc' = [node_pc EXCEPT ![p] = "hung"]
    /\ transformed' = [transformed EXCEPT
                          ![p] = Append(@, node_args[p].image_subset[node_idx[p] + 1])]
    /\ UNCHANGED <<dataset, NUM_NODES, now, mainVars, node_args, node_idx,
                   node_start_time, results_dict, key_order, written, poolVars>>

FaultNext ==
    \/ Next
    \/ \E p \in Procs : Crash(p)
    \/ \E p \in Procs : Hang(p)

\* Every process that can take a step eventually takes one: the scheduler
\* starves nobody, and nothing but a blocked join or a hung node stops the run.
FaultSpec == Init /\ [][FaultNext]_vars /\ WF_vars(FaultNext)

----------------------------------------------------------------------------
\* parallel_process.py

WORKER_COUNTS == <<1, 2, 4, 8>>

\* process_image: an unreadable file is skipped with a warning and every
\* Exception is swallowed; the output is written only for a good file.
process_image(kind) ==
    [wrote |-> kind = "ok", raised |-> FALSE]

distVars == <<NUM_NODES, seq_i, seq_start_time, sequential_time,
              image_subsets, results_dict, key_order, master_start_time,
              total_distributed_time, i, joined, node_args, node_pc,
              node_idx, node_start_time, summary, efficiency>>

\* In `transformed` the caller of a pooled call is the pool that ran it, named
\* by the position of its worker count in WORKER_COUNTS.
PoolInit ==
    /\ dataset \in Datasets
    /\ NUM_NODES = 0
    /\ now = 0
    /\ pc = "p_discover"
    /\ error = "none"
    /\ all_image_paths = <<>>
    /\ seq_i = 0
    /\ seq_start_time = 0
    /\ sequential_time = 0
    /\ image_subsets = <<>>
    /\ results_dict = <<>>
    /\ key_order = <<>>
    /\ master_start_time = 0
    /\ total_distributed_time = 0
    /\ i = 0
    /\ joined = 0
    /\ node_args = <<>>
    /\ node_pc = <<>>
    /\ node_idx = <<>>
    /\ node_start_time = <<>>
    /\ summary = <<>>
    /\ efficiency = <<>>
    /\ transformed = [c \in 1..Len(WORKER_COUNTS) |-> <<>>]
    /\ written = {}
    /\ cfg = 0
    /\ pool = <<>>
    /\ start_time = 0
    /\ results = <<>>
    /\ table = <<>>

\* time passes during a run of parallel_process.main
PoolTick ==
    /\ pc \notin {"done", "failed"}
    /\ now < MaxPoolTime
    /\ now' = now + 1
    /\ UNCHANGED <<dataset, pc, error, all_image_paths, distVars, transformed,
                   written, poolVars>>

\* main, lines 85-89.
PoolDiscover ==
    /\ pc = "p_discover"
    /\ all_image_paths' = [k \in 1..Len(dataset) |-> k]
    /\ results' = <<>>
    /\ pc' = "p_sweep"
    /\ UNCHANGED <<dataset, now, error, distVars, transformed, written, cfg,
                   pool, start_time, table>>

\* main, lines 92-101: the next worker count; executor.map submits one call
\* per item, in list order.
PoolOpen ==
    /\ pc = "p_sweep"
    /\ cfg < Len(WORKER_COUNTS)
    /\ start_time' = now
    /\ pool' = [k \in 1..Len(all_image_paths) |-> "queued"]
    /\ pc' = "p_map"
    /\ UNCHANGED <<dataset, now, error, all_image_paths, distVars,
                   transformed, written, cfg, results, table>>

Running == {k \in DOMAIN pool : pool[k] = "running"}

\* A thread of the pool takes the oldest queued call; at most max_workers
\* calls run at a time.
PoolTake(k) ==
    /\ pc = "p_map"
    /\ pool[k] = "queued"
    /\ \A m \in 1..(k - 1) : pool[m] # "queued"
    /\ Cardinality(Running) < WORKER_COUNTS[cfg + 1]
    /\ pool' = [pool EXCEPT ![k] = "running"]
    /\ transformed' = [transformed EXCEPT
                          ![cfg + 1] = Append(@, all_image_paths[k])]
    /\ UNCHANGED <<dataset, now, pc, error, all_image_paths, distVars,
                   written, cfg, start_time, results, table>>

\* process_image returns in its thread; list(...) re-raises in main what a
\* call raised.
PoolFinish(k) ==
    /\ pc = "p_map"
    /\ pool[k] = "running"
    /\ LET r == process_image(dataset[all_image_paths[k]])
       IN /\ written' = IF r.wrote THEN written \cup {all_image_paths[k]}
                        ELSE written
          /\ pool' = [pool EXCEPT ![k] = "done"]
          /\ IF r.raised
             THEN pc' = "failed" /\ error' = "Exception"
             ELSE UNCHANGED <<pc, error>>
    /\ UNCHANGED <<dataset, now, all_image_paths, distVars, transformed, cfg,
                   start_time, results, table>>

\* main, lines 101-107: every call has returned and the pool is shut down.
PoolClose ==
    /\ pc = "p_map"
    /\ \A k \in DOMAIN pool : pool[k] = "done"
    /\ results' = Append(results, [workers |-> WORKER_COUNTS[cfg + 1],
                                   time |-> now - start_time])
    /\ cfg' = cfg + 1
    /\ pc' = IF cfg + 1 = Len(WORKER_COUNTS) THEN "p_table" ELSE "p_sweep"
    /\ UNCHANGED <<dataset, now, error, all_image_paths, distVars,
                   transformed, written, pool, start_time, table>>

\* main, lines 115-123: one row of the speedup table; the baseline is the
\* time of the first entry of WORKER_COUNTS.
PoolRow ==
    /\ pc = "p_table"
    /\ Len(table) < Len(results)
    /\ LET res == results[Len(table) + 1]
           q == float_div(results[1].time, res.time)
       IN IF q.raised
          THEN /\ pc' = "failed"
               /\ error' = "ZeroDivisionError"
               /\ UNCHANGED table
          ELSE /\ table' = Append(table, [workers |-> res.workers,
                                          time |-> res.time,
                                          speedup |-> q.value])
               /\ pc' = IF Len(table) + 1 = Len(results) THEN "done"
                        ELSE "p_table"
               /\ UNCHANGED error
    /\ UNCHANGED <<dataset, now, all_image_paths, distVars, transformed,
                   written, cfg, pool, start_time, results>>

PoolNext ==
    \/ PoolTick
    \/ PoolDiscover
    \/ PoolOpen
    \/ \E k \in DOMAIN pool : PoolTake(k)
    \/ \E k \in DOMAIN pool : PoolFinish(k)
    \/ PoolClose
    \/ PoolRow

\* parallel_process.main
PoolSpec == PoolInit /\ [][PoolNext]_vars

----------------------------------------------------------------------------
\* The partition step of distributed_process.main on its own (line 84), for
\* lists and node counts larger than a whole run can be explored with.
\* np.array_split builds its result one sub-array at a time.

SplitInit ==
    /\ dataset \in {[k \in 1..n |-> "ok"] : n \in 0..MaxSplitLen}
    /\ NUM_NODES \in 0..MaxSplitNodes
    /\ now = 0
    /\ pc = "split"
    /\ error = "none"
    /\ all_image_paths = [k \in 1..Len(dataset) |-> k]
    /\ seq_i = Len(dataset)
    /\ seq_start_time = 0
    /\ sequential_time = 0
    /\ image_subsets = <<>>
    /\ results_dict = <<>>
    /\ key_order = <<>>
    /\ master_start_time = 0
    /\ total_distributed_time = 0
    /\ i = 0
    /\ joined = 0
    /\ node_args = <<>>
    /\ node_pc = [p \in Procs |-> "unstarted"]
    /\ node_idx = [p \in Procs |-> 0]
    /\ node_start_time = [p \in Procs |-> 0]
    /\ summary = <<>>
    /\ efficiency = <<>>
    /\ transformed = [c \in {MASTER} \cup Procs |->
                         IF c = MASTER THEN all_image_paths ELSE <<>>]
    /\ written = 1..Len(dataset)
    /\ cfg = 0
    /\ pool = <<>>
    /\ start_time = 0
    /\ results = <<>>
    /\ table = <<>>

\* np.array_split raises for Nsections <= 0.
SplitRaise ==
    /\ pc = "split"
    /\ NUM_NODES <= 0
    /\ pc' = "failed"
    /\ error' = "ValueError"
    /\ UNCHANGED <<dataset, NUM_NODES, now, all_image_paths, seq_i,
                   seq_start_time, sequential_time, image_subsets,
                   results_dict, key_order, master_start_time,
                   total_distributed_time, i, joined, node_args, nodeVars,
                   summary, efficiency, transformed, written, poolVars>>

\* np.array_split appends the next sub-array; after the last one main goes on.
SplitChunk ==
    /\ pc = "split"
    /\ NUM_NODES > 0
    /\ Len(image_subsets) < NUM_NODES
    /\ image_subsets' =
           Append(image_subsets,
                  array_split(all_image_paths, NUM_NODES)[Len(image_subsets) + 1])
    /\ pc' = IF Len(image_subsets) + 1 = NUM_NODES THEN "start" ELSE "split"
    /\ UNCHANGED <<dataset, NUM_NODES, now, error, all_image_paths, seq_i,
                   seq_start_time, sequential_time, results_dict, key_order,
                   master_start_time, total_distributed_time, i, joined,
                   node_args, nodeVars, summary, efficiency, transformed,
                   written, poolVars>>

SplitNext ==
    \/ SplitRaise
    \/ SplitChunk

SplitSpec == SplitInit /\ [][SplitNext]_vars

----------------------------------------------------------------------------
\* Either script: a run of distributed_process.main or a run of
\* parallel_process.main.

\* The run is one of distributed_process.main.
InDistributed == MASTER \in DOMAIN transformed

EitherNext ==
    \/ InDistributed /\ Next
    \/ ~InDistributed /\ PoolNext

EitherSpec == (Init \/ PoolInit) /\ [][EitherNext]_vars

----------------------------------------------------------------------------
\* Properties.

\* The partition step (line 84) has been executed, successfully or not.
SplitAttempted == pc \notin {"discover", "baseline", "split"}

\* main is past the join loop.
AfterJoin == pc \in {"summary", "efficiency", "done"} \/ error = "ZeroDivisionError"

ChunkLengths == [k \in 1..Len(image_subsets) |-> Len(image_subsets[k])]

RECURSIVE SumCounts(_, _)
SumCounts(d, keys) ==
    IF keys = {} THEN 0
    ELSE LET m == CHOOSE x \in keys : TRUE
         IN d[m].count + SumCounts(d, keys \ {m})

BalancedPartition ==
    /\ Len(image_subsets) = NUM_NODES
    /\ SumSeq(ChunkLengths) = Len(all_image_paths)
    /\ \A k \in 1..Len(image_subsets) :
          Len(image_subsets[k]) \in
              {Len(all_image_paths) \div NUM_NODES,
               (Len(all_image_paths) \div NUM_NODES) + 1}
    /\ Concat(image_subsets) = all_image_paths

\* C1 (as amended): for every positive NUM_NODES and every list of L items,
\* once np.array_split has run there are exactly NUM_NODES chunks, their
\* lengths sum to L, each length is L div N or L div N + 1, and the chunks
\* concatenated in index order are the original list.
C1_PartitionPositive ==
    (SplitAttempted /\ NUM_NODES > 0) => BalancedPartition

\* C1 (original statement): the same for every non-negative NUM_NODES,
\* zero included.
C1_PartitionAnyCount ==
    SplitAttempted => BalancedPartition

C1_Witness ==
    /\ pc = "start"
    /\ NUM_NODES = 2
    /\ all_image_paths = <<1, 2, 3>>
    /\ image_subsets = <<(<<1, 2>>), (<<3>>)>>

C3_FullBarrier ==
    AfterJoin => \A p \in Procs : node_pc[p] \in TERMINATED

C3_Witness ==
    /\ pc = "summary"
    /\ NUM_NODES = 2
    /\ \A p \in Procs : node_pc[p] = "exited"
    /\ Len(transformed[1]) = 2
    /\ Len(transformed[2]) = 1

\* C4: with NUM_NODES = 0 the run fails before any call of the transform:
\* neither the baseline nor a node has passed an item to
\* process_single_image, and the run does not end normally.
C4_FailBeforeTransform ==
    NUM_NODES = 0 =>
        /\ \A c \in DOMAIN transformed : transformed[c] = <<>>
        /\ pc # "done"

\* C5: a failing transform neither stops a node nor shrinks its count: a node
\* that has exited has passed every item of its chunk, in order, to
\* process_single_image, and has published a result whose count is the
\* length of the chunk.
C5_FailureTolerant ==
    \A p \in Procs :
        node_pc[p] = "exited" =>
            /\ transformed[p] = node_args[p].image_subset
            /\ node_args[p].node_id \in DOMAIN results_dict
            /\ results_dict[node_args[p].node_id].count
                   = Len(node_args[p].image_subset)

C5_Witness ==
    \E p \in Procs :
        /\ node_pc[p] = "exited"
        /\ Len(node_args[p].image_subset) = 2
        /\ dataset[node_args[p].image_subset[1]] = "raise"
        /\ dataset[node_args[p].image_subset[2]] = "ok"
        /\ results_dict[node_args[p].node_id].count = 2

\* C6: a node that terminated without publishing makes the run abort after
\* the join: no summary line is printed, no efficiency is computed and the
\* run does not end normally.
C6_MissingResultIsFatal ==
    (\E p \in Procs : node_pc[p] = "crashed") =>
        /\ pc \notin {"efficiency", "done"}
        /\ summary = <<>>
        /\ efficiency = <<>>

C7_Invariant ==
    /\ efficiency # <<>> =>
          /\ pc = "done"
          /\ efficiency = <<sequential_time, total_distributed_time>>
          /\ total_distributed_time # 0
          /\ \A p \in Procs : node_pc[p] = "exited"
          /\ DOMAIN results_dict = {node_args[p].node_id : p \in Procs}
    /\ (pc \in {"done", "failed"} /\ error # "ValueError"
            /\ total_distributed_time = 0) =>
          /\ error = "ZeroDivisionError"
          /\ efficiency = <<>>

\* C7: the efficiency is sequential_time / total_distributed_time, computed
\* once, when every node has published, and never with a zero divisor: a
\* total_distributed_time of zero ends the run with ZeroDivisionError and no
\* efficiency value.
C7_EfficiencyOnce ==
    /\ []C7_Invariant
    /\ [][efficiency # <<>> => efficiency' = efficiency]_vars

C7_Witness ==
    /\ pc = "failed"
    /\ error = "ZeroDivisionError"
    /\ efficiency = <<>>
    /\ NUM_NODES = 2
    /\ Len(all_image_paths) = 3

\* C8: with more nodes than items, every node is started, every node with an
\* empty chunk publishes count 0, and the run ends normally with the
\* efficiency either skipped or equal to 1.0.
C8_MoreNodesThanItems ==
    (NUM_NODES > Len(dataset) /\ pc \in {"done", "failed"}) =>
        /\ pc = "done"
        /\ \A p \in Procs :
              /\ node_pc[p] = "exited"
              /\ Len(node_args[p].image_subset) = 0 =>
                    results_dict[node_args[p].node_id].count = 0
        /\ efficiency = <<>> \/ efficiency[1] = efficiency[2]

\* The fields of the Coordinator contract's run summary.
CONTRACT_FIELDS == {"sequential_time", "parallel_time", "per_worker", "efficiency"}

\* C9: the pool mode meets the same Coordinator contract as the process
\* mode: what parallel_process.main reports for a worker count is a summary
\* with a sequential time, a parallel time, one result per worker whose
\* counts sum to the number of items, and efficiency = sequential_time /
\* parallel_time.
C9_PoolMeetsContract ==
    pc = "done" =>
        \A c \in 1..Len(table) :
            /\ CONTRACT_FIELDS \subseteq DOMAIN table[c]
            /\ Len(table[c].per_worker) = table[c].workers
            /\ SumSeq([w \in 1..Len(table[c].per_worker) |->
                          table[c].per_worker[w].count]) = Len(all_image_paths)
            /\ table[c].efficiency
                   = <<table[c].sequential_time, table[c].parallel_time>>

\* C10: a node that never completes does not block main for ever: the run
\* eventually ends.
C10_NoIndefiniteHang ==
    (\E p \in Procs : node_pc[p] = "hung") ~> (pc \in {"done", "failed"})

\* C11: with k = L mod N and base = L div N, the first k chunks hold base + 1
\* items and every later chunk holds base items, the chunks being consecutive
\* runs of the original list; 10 items on 3 nodes give the lengths 4, 3, 3.
C11_RemainderFirst ==
    pc = "start" =>
        LET L == Len(all_image_paths)
            base == L \div NUM_NODES
            rem == L % NUM_NODES
        IN /\ \A k \in 1..NUM_NODES :
                 Len(image_subsets[k]) = IF k <= rem THEN base + 1 ELSE base
           /\ \A k \in 1..NUM_NODES : \A m \in 1..Len(image_subsets[k]) :
                 image_subsets[k][m]
                     = all_image_paths[SumSeq(SubSeq(ChunkLengths, 1, k - 1)) + m]
           /\ (L = 10 /\ NUM_NODES = 3) => ChunkLengths = <<4, 3, 3>>

C11_Witness ==
    /\ pc = "start"
    /\ Len(all_image_paths) = 10
    /\ NUM_NODES = 3
    /\ image_subsets = <<(<<1, 2, 3, 4>>), (<<5, 6, 7>>), (<<8, 9, 10>>)>>

\* The calls of the transform made by nodes on item x, as <<process, position>>.
NodeCalls(x) ==
    {c \in UNION {{<<p, k>> : k \in 1..Len(transformed[p])} : p \in Procs} :
        transformed[c[1]][c[2]] = x}

Occurrences(seq, x) == Cardinality({k \in 1..Len(seq) : seq[k] = x})

Elements(seq) == {seq[k] : k \in 1..Len(seq)}

\* Every node has been started and has run node_task to its end.
AllNodesExited ==
    /\ pc \in {"join", "summary", "efficiency", "done"} \/ error = "ZeroDivisionError"
    /\ \A p \in Procs : node_pc[p] = "exited"

\* The per-node lines have been printed.
SummaryPrinted == pc \in {"efficiency", "done"} \/ error = "ZeroDivisionError"

\* C12: in the concurrent pass no item is passed to the transform twice, by
\* the same node or by two nodes, and once every node has completed each
\* discovered item has been passed to it exactly once.
C12_EachItemOnce ==
    \A x \in 1..Len(dataset) :
        /\ Cardinality(NodeCalls(x)) <= 1
        /\ AllNodesExited => Cardinality(NodeCalls(x)) = 1

C12_Witness ==
    /\ AllNodesExited
    /\ NUM_NODES = 2
    /\ Len(dataset) = 3
    /\ dataset[2] = "none"
    /\ \A x \in 1..3 : Cardinality(NodeCalls(x)) = 1

C13_Invariant ==
    /\ Len(node_args) <= NUM_NODES
    /\ \A p \in DOMAIN node_args :
          /\ node_args[p].image_subset = image_subsets[p]
          /\ \A q \in DOMAIN node_args :
                p # q => node_args[p].node_id # node_args[q].node_id
    /\ Cardinality(DOMAIN results_dict)
           = Cardinality({p \in Procs : node_pc[p] = "exited"})
    /\ Len(key_order) = Cardinality(DOMAIN results_dict)

\* C13: every node stores into the shared dictionary once, under a key of
\* its own: the node ids are pairwise distinct, a slot once written is never
\* written again, a step adds at most one key, chunk p is the argument of
\* process p only, and no process is started a second time.
C13_WriteOnceDisjoint ==
    /\ []C13_Invariant
    /\ [][/\ \A k \in DOMAIN results_dict :
                 /\ k \in DOMAIN results_dict'
                 /\ results_dict'[k] = results_dict[k]
          /\ Cardinality(DOMAIN results_dict')
                 <= Cardinality(DOMAIN results_dict) + 1
          /\ \A p \in Procs :
                 node_pc'[p] = "started" =>
                     node_pc[p] \in {"unstarted", "started"}]_vars

C13_Witness ==
    /\ NUM_NODES = 2
    /\ \A p \in Procs : node_pc[p] = "exited"
    /\ DOMAIN results_dict = {1, 2}
    /\ key_order = <<2, 1>>

\* C14: the master start time is taken before any node takes its own, and
\* the master end time after every node has finished, so once main is past
\* the join loop total_distributed_time is at least the time every
\* published result reports.
C14_ParallelTimeBoundsNodes ==
    /\ \A p \in Procs :
          node_pc[p] \in {"loop", "exited"} =>
              master_start_time <= node_start_time[p]
    /\ AfterJoin =>
          \A k \in DOMAIN results_dict :
              results_dict[k].time <= total_distributed_time

C14_Witness ==
    /\ AfterJoin
    /\ NUM_NODES = 2
    /\ total_distributed_time = 1
    /\ results_dict[1].time = 0
    /\ results_dict[2].time = 1

\* C15: the baseline passes every discovered item to the transform once,
\* while no node runs, and the items the nodes pass to it, taken together as
\* a multiset, are the items of the baseline.
C15_SameItemSet ==
    /\ pc \in {"discover", "baseline", "split"} =>
          \A p \in Procs : node_pc[p] = "unstarted"
    /\ pc \notin {"discover", "baseline"} =>
          transformed[MASTER] = all_image_paths
    /\ AllNodesExited =>
          \A x \in 1..Len(dataset) :
              Cardinality(NodeCalls(x)) = Occurrences(transformed[MASTER], x)

C15_Witness ==
    /\ AllNodesExited
    /\ NUM_NODES = 2
    /\ transformed[MASTER] = <<1, 2, 3>>
    /\ transformed[1] = <<1, 2>>
    /\ transformed[2] = <<3>>

\* C16: whatever order the nodes publish in, the printed lines are in
\* ascending node_id order, and their (node_id, count) entries depend on the
\* item list and NUM_NODES only.
C16_SummarySorted ==
    SummaryPrinted =>
        /\ \A k \in 1..(Len(summary) - 1) :
              summary[k].node_id < summary[k + 1].node_id
        /\ [k \in 1..Len(summary) |-> <<summary[k].node_id, summary[k].count>>]
               = [k \in 1..NUM_NODES |-> <<k, Len(image_subsets[k])>>]

C16_Witness ==
    /\ SummaryPrinted
    /\ key_order = <<2, 1>>
    /\ Len(summary) = 2
    /\ summary[1].node_id = 1
    /\ summary[2].node_id = 2

\* C17: no two units that run at the same time have the same item to
\* transform.  In distributed_process.main a node exists only once the
\* baseline has passed every item, and the chunks of two nodes share no
\* item; in parallel_process.main the calls running at one time are on
\* different items, a pool is handed each item once, and a pool has calls
\* only when every earlier pool has returned all of its calls.
C17_NoConcurrentSameItem ==
    IF InDistributed
    THEN /\ \A p \in Procs :
               node_pc[p] # "unstarted" =>
                   /\ pc \notin {"discover", "baseline", "split"}
                   /\ transformed[MASTER] = all_image_paths
         /\ \A p \in DOMAIN node_args : \A q \in DOMAIN node_args :
               p # q => Elements(node_args[p].image_subset)
                            \cap Elements(node_args[q].image_subset) = {}
    ELSE /\ \A k \in Running : \A m \in Running :
               k # m => all_image_paths[k] # all_image_paths[m]
         /\ Running # {} => pc = "p_map"
         /\ \A c \in DOMAIN transformed :
               /\ \A k \in 1..Len(transformed[c]) : \A m \in 1..(k - 1) :
                     transformed[c][k] # transformed[c][m]
               /\ transformed[c] # <<>> =>
                     /\ c <= cfg + 1
                     /\ \A b \in 1..(c - 1) :
                           Len(transformed[b]) = Len(all_image_paths)
               /\ c <= cfg => Len(transformed[c]) = Len(all_image_paths)

C17_Witness ==
    /\ InDistributed
    /\ NUM_NODES = 2
    /\ node_pc[1] = "loop"
    /\ node_pc[2] = "loop"
    /\ node_idx[1] = 1
    /\ node_idx[2] = 0
    /\ Len(node_args[1].image_subset) = 2

C17_PoolWitness ==
    /\ ~InDistributed
    /\ cfg = 1
    /\ Cardinality(Running) = 2

\* C18: a result is in the shared dictionary only when its node has passed
\* every item of its chunk to the transform, so the count of a stored result
\* never exceeds the number of items its node has attempted.
C18_ResultAfterChunk ==
    \A p \in DOMAIN node_args :
        node_args[p].node_id \in DOMAIN results_dict =>
            /\ transformed[p] = node_args[p].image_subset
            /\ results_dict[node_args[p].node_id].count <= Len(transformed[p])

C18_Witness ==
    \E p \in DOMAIN node_args : \E q \in DOMAIN node_args :
        /\ node_args[p].node_id \in DOMAIN results_dict
        /\ Len(node_args[p].image_subset) = 2
        /\ results_dict[node_args[p].node_id].count = 2
        /\ node_pc[q] = "loop"

====
